---- MODULE Spec2Model ----
(***************************************************************************)
(* The IMAP APPEND handler onAppend (src/config/store-sessions.js,         *)
(* lines 291-807) as a state machine.  Every connection runs onAppend as   *)
(* an async function: each `await` is a suspension point, so each action   *)
(* below is the code between two awaits, executed by one connection.       *)
(***************************************************************************)
EXTENDS Integers, Sequences, FiniteSets, TLC

(* ------------------------------ bounds --------------------------------- *)
\* alias ids the cleanup job can find on disk
MaxAliases == 3
\* appends started in one behaviour, over all connections
MaxAppends == 2
\* the same, where the appends of interest follow one another
MaxSerialAppends == 3
\* the domain's maximum quota per alias (Domains.getMaxQuota), in bytes
MaxQuotaPerAlias == 3
\* number of times the clock advances in one behaviour
MaxTicks == 2

(* ------------------------- program constants --------------------------- *)
SIXTY_FOUR_MB_IN_BYTES == 67108864
\* dayjs().subtract(1, 'hour') and dayjs().subtract(1, 'day'), in hours
ONE_HOUR == 1
ONE_DAY == 24

(* --------------------------- input universes --------------------------- *)
Procs == {"c1", "c2"}
Paths == {"INBOX", "Archive"}
AliasIds == 1..MaxAliases
Handlers == {"webhook", "redirect"}
PaymentIntents == {"pi_1", "pi_2"}
Fingerprints == {"f1", "f2"}
Hashes == {"h1", "h2"}
Draft == "\\Draft"
Seen == "\\Seen"
Flagged == "\\Flagged"
Deleted == "\\Deleted"
\* mailbox.specialUse, and a mailbox.retention that is not a number
Drafts == "\\Drafts"
Junk == "\\Junk"
NotANumber == -1
NoMailbox == "null"
NoDate == -1

\* the errors onAppend throws itself, and the ones its collaborators raise
IMAPError(message, imapResponse) ==
  [message |-> message, imapResponse |-> imapResponse]
NoError == IMAPError("none", "none")
MessageSizeExceeded == IMAPError("IMAP_MESSAGE_SIZE_EXCEEDED", "none")
MailboxOverQuota == IMAPError("IMAP_MAILBOX_OVER_QUOTA", "OVERQUOTA")
MailboxDoesNotExist == IMAPError("IMAP_MAILBOX_DOES_NOT_EXIST", "TRYCREATE")
MessageExceedsQuota == IMAPError("IMAP_MAILBOX_MESSAGE_EXCEEDS_QUOTA", "OVERQUOTA")
Thrown(what) == IMAPError(what, "none")

VARIABLES
  pc,                \* position of each connection in onAppend
  ap,                \* the locals of each connection's running onAppend
  res,               \* what was handed to the callback fn
  mailboxes,         \* Mailboxes collection: path -> document
  messages,          \* Messages collection
  attachments,       \* attachment storage: content hash -> reference count
  journal,           \* notifier journal (addEntries)
  storageUsed,       \* the owner's cached storage-used value
  maxQuotaPerAlias,  \* the domain's maximum quota per alias (read only)
  pgp_error_sent_at, \* the owner's alias.pgp_error_sent_at
  clock,             \* Date.now(), in hours
  ticks,             \* number of clock advances so far
  emails,            \* alert emails in flight
  started,           \* number of onAppend calls so far
  budget,            \* number of onAppend calls a behaviour may start
  allocs,            \* history: (mailbox, uid, modseq) in allocation order
  exists,            \* history: live EXISTS events broadcast
  alerts,            \* history: alert emails dispatched
  unsets,            \* history: times pgp_error_sent_at was cleared
  wspRequests,       \* history: append requests sent over this.wsp
  cleaned,           \* history: deleteMany calls
  fired,             \* history: notifier.fire calls
  job,               \* the storage cleanup job
  stripe             \* the two handlers of a Stripe payment, and Payments

vars == <<pc, ap, res, mailboxes, messages, attachments, journal, storageUsed,
          maxQuotaPerAlias, pgp_error_sent_at, clock, ticks, emails, started, budget, allocs, exists,
          alerts, unsets, wspRequests, cleaned, fired, job, stripe>>

storage == <<mailboxes, messages, attachments, journal, storageUsed, exists>>
owner == <<maxQuotaPerAlias, budget, pgp_error_sent_at, emails, alerts, unsets,
           ticks>>

\* locals before onAppend has assigned them
NoAppend ==
  [id |-> 0, viaWsp |-> FALSE, rawSize |-> 0, path |-> NoMailbox,
   encrypted |-> FALSE, gate |-> "none", checkForExisting |-> FALSE,
   flags |-> {}, storageUsed |-> 0, mailbox |-> NoMailbox, size |-> 0,
   fingerprint |-> "none", nodes |-> {}, attachmentMap |-> {},
   hasNodeBodies |-> FALSE, mimeTreeData |-> FALSE, uid |-> 0, modseq |-> 0,
   selected |-> FALSE, hasKey |-> FALSE, logged |-> {}, err |-> NoError]

NoResult ==
  [type |-> "none", status |-> "none", uid |-> 0, id |-> 0,
   mailbox |-> NoMailbox, size |-> 0, err |-> NoError]

\* the cleanup job before it runs: its position, the alias ids found on
\* disk, the state of each size request, the alert emails sent to the admins
NoJob ==
  [pc |-> "start", ids |-> {}, requests |-> [id \in AliasIds |-> "none"],
   emails |-> {}]

\* the payment handlers before they run: the position of each, the payment
\* intent it processes, what its Payments.findOne returned, the Payments
\* collection of the user, whether the collection has a unique index on
\* stripe_payment_intent_id, the user's plan and the alerts sent
NoStripe ==
  [pc |-> [h \in Handlers |-> "start"],
   paymentIntent |-> [h \in Handlers |-> "none"],
   payment |-> [h \in Handlers |-> FALSE],
   Payments |-> <<>>, unique |-> "unknown", plan |-> "free", alerts |-> 0]

\* a mailbox document as folder management creates it
Box(specialUse, retention) ==
  [exists |-> TRUE, uidNext |-> 1, modifyIndex |-> 0,
   specialUse |-> specialUse, retention |-> retention]

InitBoxes(quota, appends, boxes) ==
  /\ mailboxes \in boxes
  /\ maxQuotaPerAlias = quota
  /\ budget = appends
  /\ pc = [p \in Procs |-> "idle"]
  /\ ap = [p \in Procs |-> NoAppend]
  /\ res = [p \in Procs |-> NoResult]
  /\ messages = {}
  /\ attachments = [h \in Hashes |-> 0]
  /\ journal = <<>>
  /\ storageUsed = 0
  /\ pgp_error_sent_at = NoDate
  /\ clock = 0
  /\ ticks = 0
  /\ emails = {}
  /\ started = 0
  /\ allocs = <<>>
  /\ exists = <<>>
  /\ alerts = <<>>
  /\ unsets = <<>>
  /\ wspRequests = 0
  /\ cleaned = <<>>
  /\ fired = <<>>
  /\ job = NoJob
  /\ stripe = NoStripe

InitWith(quota, appends) ==
  InitBoxes(quota, appends, {[path \in Paths |-> Box("none", 0)]})

\* one connection moves: its pc and locals change, the others' do not
Goto(p, label, locals) ==
  /\ pc' = [pc EXCEPT ![p] = label]
  /\ ap' = [ap EXCEPT ![p] = locals]

\* a throw inside the try block of the direct path (line 780)
Throw(p, err, locals) == Goto(p, "catch", [locals EXCEPT !.err = err])

(* ----------------------------------------------------------------------- *)
(* lines 291-332: entry; when this.wsp is set the append is delegated to   *)
(* the worker, which runs the direct path below for the request.           *)
(* ----------------------------------------------------------------------- *)
Begin(p, viaWsp, rawSize) ==
  /\ pc[p] = "idle"
  /\ started < budget
  /\ started' = started + 1
  /\ LET a == [NoAppend EXCEPT !.id = started + 1, !.viaWsp = viaWsp,
                               !.rawSize = rawSize]
     IN IF viaWsp /\ rawSize > SIXTY_FOUR_MB_IN_BYTES
          THEN \* thrown before wsp.request; the error has no imapResponse
               /\ Goto(p, "done", a)
               /\ res' = [res EXCEPT ![p] =
                           [NoResult EXCEPT !.type = "error",
                                            !.err = MessageSizeExceeded]]
               /\ UNCHANGED wspRequests
          ELSE /\ Goto(p, "refreshSession", a)
               /\ wspRequests' = IF viaWsp THEN wspRequests + 1 ELSE wspRequests
               /\ UNCHANGED res
  /\ UNCHANGED <<storage, owner, clock, allocs, cleaned, fired, job, stripe>>

(* ----------------------------------------------------------------------- *)
(* helpers outside src/ that onAppend calls                                *)
(* ----------------------------------------------------------------------- *)
\* Aliases.isOverQuota(alias, size): storage used plus size against the max
isOverQuota(used, size, max) == used + size > max

\* refineAndLogError: the translated error keeps its kind and protocol hint
refineAndLogError(err) == IMAPError(err.message, err.imapResponse)

RECURSIVE SumSizes(_)
SumSizes(ms) ==
  IF ms = {} THEN 0
  ELSE LET m == CHOOSE x \in ms : TRUE IN m.size + SumSizes(ms \ {m})

\* updateStorageUsed: recompute the owner's storage from the stored messages
updateStorageUsed == SumSizes(messages)

\* encryptMessage(publicKey, raw): already encrypted input is returned as is
encryptMessage(encrypted) == TRUE

\* attachmentStorage.deleteMany(ids, magic): drop one reference per id
deleteMany(store, ids) ==
  [h \in Hashes |-> IF h \in ids /\ store[h] > 0 THEN store[h] - 1 ELSE store[h]]

\* what the callback fn of this call receives (lines 325-328, 779, 805)
Success(p, a, response) ==
  res' = [res EXCEPT ![p] = response]

Failure(p, a, err) ==
  res' = [res EXCEPT ![p] =
    IF a.viaWsp /\ err.imapResponse # "none"
      THEN \* line 327: fn(null, err.imapResponse)
           [NoResult EXCEPT !.type = "imapResponse",
                            !.err = IMAPError("none", err.imapResponse)]
      ELSE [NoResult EXCEPT !.type = "error", !.err = refineAndLogError(err)]]

(* ----------------------------------------------------------------------- *)
(* lines 339-363: refresh the session, then the zero-byte quota pre-check  *)
(* ----------------------------------------------------------------------- *)
RefreshSession(p, fails) ==
  /\ pc[p] = "refreshSession"
  /\ IF fails THEN Throw(p, Thrown("refreshSession"), ap[p])
              ELSE Goto(p, "isOverQuota", ap[p])
  /\ UNCHANGED <<res, storage, owner, clock, started, allocs, wspRequests, cleaned, fired, job, stripe>>

\* a handler that leaves the quota to the final check
QuotaPreCheck_Skipped(p) ==
  /\ pc[p] = "isOverQuota"
  /\ Goto(p, "findMailbox", [ap[p] EXCEPT !.storageUsed = storageUsed])
  /\ UNCHANGED <<res, storage, owner, clock, started, allocs, wspRequests, cleaned, fired, job, stripe>>

QuotaPreCheck(p) ==
  /\ pc[p] = "isOverQuota"
  /\ LET a == [ap[p] EXCEPT !.storageUsed = storageUsed]
     IN IF isOverQuota(storageUsed, 0, maxQuotaPerAlias)
          THEN Throw(p, MailboxOverQuota, a)
          ELSE Goto(p, "findMailbox", a)
  /\ UNCHANGED <<res, storage, owner, clock, started, allocs, wspRequests, cleaned, fired, job, stripe>>

\* a lookup that creates the mailbox it does not find
FindMailbox_AutoCreate(p, path) ==
  /\ pc[p] = "findMailbox"
  /\ Goto(p, "encrypt", [ap[p] EXCEPT !.path = path, !.mailbox = path])
  /\ mailboxes' = [mailboxes EXCEPT ![path].exists = TRUE]
  /\ UNCHANGED <<res, messages, attachments, journal, storageUsed, exists, owner,
                 clock, started, allocs, wspRequests, cleaned, fired, job, stripe>>

(* lines 366-387: Mailboxes.findOne({path}); absent -> TRYCREATE *)
FindMailbox(p, path) ==
  /\ pc[p] = "findMailbox"
  /\ LET a == [ap[p] EXCEPT !.path = path] IN
     IF mailboxes[path].exists
       THEN Goto(p, "encrypt", [a EXCEPT !.mailbox = path])
       ELSE Throw(p, MailboxDoesNotExist, a)
  /\ UNCHANGED <<res, storage, owner, clock, started, allocs, wspRequests, cleaned, fired, job, stripe>>

(* ----------------------------------------------------------------------- *)
(* lines 389-510: the encryption gate.  The two conditional updates of     *)
(* pgp_error_sent_at are single findOneAndUpdate calls; the alert email is *)
(* sent from the .then of the update and completes later.                  *)
(* ----------------------------------------------------------------------- *)
EncryptOutcomes == {"ok", "codeBug", "retryable", "permanent"}
FlagSets == {{}, {Draft}}

\* lines 399-413: unset pgp_error_sent_at when it is a date at least 1h old
UnsetAfterSuccess(sentAt, now) ==
  IF sentAt # NoDate /\ sentAt <= now - ONE_HOUR THEN NoDate ELSE sentAt

\* a filter that lets every update through
AlertFilter_Always(sentAt, now) == TRUE

\* lines 423-451: the filter of the conditional update (absent or >= 1 day old)
AlertFilter(sentAt, now) == sentAt = NoDate \/ sentAt <= now - ONE_DAY

\* a handler that alerts the owner on every encryption error
ShouldAlert_Always(outcome) == TRUE

\* an alert email that does not wait for the update to match
AlertDispatched_Always(alias) == TRUE

\* line 453: no email when the conditional update matched no alias
AlertDispatched(alias) == alias

\* line 420
ShouldAlert(outcome) == outcome \notin {"codeBug", "retryable"}

\* a gate that also encrypts drafts
GateApplies_Drafts(flags, hasKey) == hasKey

\* lines 390-394
GateApplies(flags, hasKey) == Draft \notin flags /\ hasKey

\* an encryption error that is thrown on to the outer catch block
AfterEncryptError_Rethrow(p, a) == Throw(p, Thrown("encryptMessage"), a)

\* lines 418-419: the error is logged and the append goes on with raw as is
AfterEncryptError(p, a) == Goto(p, "prepareMessage", a)

EncryptGate(p, flags, hasKey, outcome) ==
  /\ pc[p] = "encrypt"
  /\ LET a == [ap[p] EXCEPT !.flags = flags, !.hasKey = hasKey] IN
     IF ~GateApplies(flags, hasKey)
       THEN /\ Goto(p, "prepareMessage", a)
            /\ UNCHANGED owner
       ELSE IF outcome = "ok"
         THEN /\ Goto(p, "prepareMessage",
                      [a EXCEPT !.encrypted = encryptMessage(a.encrypted),
                                !.gate = outcome])
              /\ pgp_error_sent_at' = UnsetAfterSuccess(pgp_error_sent_at, clock)
              /\ unsets' = IF pgp_error_sent_at' # pgp_error_sent_at
                             THEN Append(unsets, [at |-> clock, by |-> "success"])
                             ELSE unsets
              /\ UNCHANGED <<maxQuotaPerAlias, budget, emails, alerts, ticks>>
         ELSE /\ AfterEncryptError(p, [a EXCEPT !.gate = outcome])
              /\ IF ShouldAlert(outcome)
                   THEN LET alias == AlertFilter(pgp_error_sent_at, clock) IN
                        /\ pgp_error_sent_at' =
                             IF alias THEN clock ELSE pgp_error_sent_at
                        /\ emails' =
                             IF AlertDispatched(alias)
                               THEN emails \cup {[id |-> a.id, now |-> clock]}
                               ELSE emails
                        /\ alerts' =
                             IF alias
                               THEN Append(alerts,
                                      [id |-> a.id, at |-> clock,
                                       outcome |-> outcome, sent |-> FALSE])
                               ELSE alerts
                        /\ UNCHANGED <<maxQuotaPerAlias, budget, unsets, ticks>>
                   ELSE UNCHANGED owner
  /\ UNCHANGED <<res, storage, clock, started, allocs, wspRequests, cleaned, fired, job, stripe>>

\* lines 474-503: the alert email resolves or rejects
EmailResult(e, sent) ==
  /\ e \in emails
  /\ emails' = emails \ {e}
  /\ pgp_error_sent_at' =
       IF sent THEN clock
       ELSE IF pgp_error_sent_at = e.now THEN NoDate ELSE pgp_error_sent_at
  /\ alerts' = [i \in DOMAIN alerts |->
                  IF alerts[i].id = e.id THEN [alerts[i] EXCEPT !.sent = sent]
                  ELSE alerts[i]]
  /\ unsets' = IF ~sent /\ pgp_error_sent_at = e.now
                 THEN Append(unsets, [at |-> clock, by |-> "emailFailed"])
                 ELSE unsets
  /\ UNCHANGED <<pc, ap, res, storage, maxQuotaPerAlias, budget, clock, ticks,
                 started, allocs, wspRequests, cleaned, fired, job, stripe>>

(* lines 512-549: prepareMessage and getFingerprint *)
PrepareMessage(p, fingerprint, nodes, fails) ==
  /\ pc[p] = "prepareMessage"
  /\ IF fails
       THEN Throw(p, Thrown("prepareMessage"), ap[p])
       ELSE Goto(p, "checkForExisting",
                 [ap[p] EXCEPT !.size = ap[p].rawSize,
                               !.fingerprint = fingerprint, !.nodes = nodes])
  /\ UNCHANGED <<res, storage, owner, clock, started, allocs, wspRequests, cleaned, fired, job, stripe>>

\* a lookup by fingerprint alone
ExistingMessages_AnyMailbox(fingerprint, mailbox) ==
  {m \in messages : m.fingerprint = fingerprint}

(* lines 551-577: the opt-in dedup lookup *)
ExistingMessages(fingerprint, mailbox) ==
  {m \in messages : m.fingerprint = fingerprint /\ m.mailbox = mailbox}

ExistingResponse(m) ==
  [type |-> "success", status |-> "new", uid |-> m.uid, id |-> m.id,
   mailbox |-> m.mailbox, size |-> m.size, err |-> NoError]

\* a dedup hit that still announces the message in the journal
ReturnExisting_Journaled(p, a, existingMessage) ==
  /\ Success(p, a, ExistingResponse(existingMessage))
  /\ Goto(p, "done", a)
  /\ journal' = Append(journal,
       [ignore |-> FALSE, command |-> "EXISTS", uid |-> existingMessage.uid,
        mailbox |-> existingMessage.mailbox, message |-> existingMessage.id])
  /\ UNCHANGED <<mailboxes, messages, attachments, storageUsed, exists>>

\* lines 562-573: fn(null, true, {...}); return
ReturnExisting(p, a, existingMessage) ==
  /\ Success(p, a, ExistingResponse(existingMessage))
  /\ Goto(p, "done", a)
  /\ UNCHANGED storage

CheckForExisting(p, checkForExisting) ==
  /\ pc[p] = "checkForExisting"
  /\ LET a == [ap[p] EXCEPT !.checkForExisting = checkForExisting]
         found == ExistingMessages(a.fingerprint, a.mailbox) IN
     IF checkForExisting /\ found # {}
       THEN \E existingMessage \in found : ReturnExisting(p, a, existingMessage)
       ELSE /\ Goto(p, "getMaxQuota", [a EXCEPT !.mimeTreeData = TRUE])
            /\ UNCHANGED <<res, storage>>
  /\ UNCHANGED <<owner, clock, started, allocs, wspRequests, cleaned, fired, job, stripe>>

\* a check that already rejects at the limit
exceedsQuota_AtLimit(used, size, max) == used + size >= max

(* lines 579-592: the final quota check with the real size *)
exceedsQuota(used, size, max) == used + size > max

QuotaCheck(p) ==
  /\ pc[p] = "getMaxQuota"
  /\ IF exceedsQuota(ap[p].storageUsed, ap[p].size, maxQuotaPerAlias)
       THEN Throw(p, MessageExceedsQuota, ap[p])
       ELSE Goto(p, "storeNodeBodies", ap[p])
  /\ UNCHANGED <<res, storage, owner, clock, started, allocs, wspRequests, cleaned, fired, job, stripe>>

(* lines 594-602: indexer.storeNodeBodies fills mimeTree.attachmentMap as  *)
(* it stores each node; when it throws, hasNodeBodies stays undefined      *)
StoreBlobs(store, ids) ==
  [h \in Hashes |-> IF h \in ids THEN store[h] + 1 ELSE store[h]]

StoreNodeBodies(p, stored, fails) ==
  /\ pc[p] = "storeNodeBodies"
  /\ stored \subseteq ap[p].nodes
  /\ fails \/ stored = ap[p].nodes
  /\ attachments' = StoreBlobs(attachments, stored)
  /\ LET a == [ap[p] EXCEPT !.attachmentMap = stored] IN
     IF fails THEN Throw(p, Thrown("storeNodeBodies"), a)
              ELSE Goto(p, "findByIdAndUpdate", [a EXCEPT !.hasNodeBodies = TRUE])
  /\ UNCHANGED <<res, mailboxes, messages, journal, storageUsed, exists, owner,
                 clock, started, allocs, wspRequests, cleaned, fired, job, stripe>>

(* ----------------------------------------------------------------------- *)
(* lines 682-707: Mailboxes.findByIdAndUpdate({$inc: {uidNext: 1,          *)
(* modifyIndex: 1}}, {returnDocument: 'before'}): one storage operation    *)
(* ----------------------------------------------------------------------- *)
\* an update that skips a uid
findByIdAndUpdate_ByTwo(doc) ==
  [doc EXCEPT !.uidNext = doc.uidNext + 2, !.modifyIndex = doc.modifyIndex + 1]

\* a lost update: uidNext is written back as it was read
findByIdAndUpdate_LostUpdate(doc) ==
  [doc EXCEPT !.modifyIndex = doc.modifyIndex + 1]

findByIdAndUpdate(doc) ==
  [doc EXCEPT !.uidNext = doc.uidNext + 1, !.modifyIndex = doc.modifyIndex + 1]

\* an allocation that brings a deleted mailbox back
Allocate_Upsert(p) ==
  /\ pc[p] = "findByIdAndUpdate"
  /\ LET path == ap[p].mailbox
         before == mailboxes[path] IN
     /\ mailboxes' = [mailboxes EXCEPT
                        ![path] = [findByIdAndUpdate(before) EXCEPT !.exists = TRUE]]
     /\ Goto(p, "getThreadId",
             [ap[p] EXCEPT !.uid = before.uidNext,
                           !.modseq = before.modifyIndex + 1])
     /\ allocs' = Append(allocs,
          [id |-> ap[p].id, mailbox |-> path, uid |-> before.uidNext,
           modseq |-> before.modifyIndex + 1])
  /\ UNCHANGED <<res, messages, attachments, journal, storageUsed, exists, owner,
                 clock, started, wspRequests, cleaned, fired, job, stripe>>

Allocate(p) ==
  /\ pc[p] = "findByIdAndUpdate"
  /\ LET path == ap[p].mailbox
         before == mailboxes[path] IN
     IF ~before.exists
       THEN /\ Throw(p, MailboxDoesNotExist, [ap[p] EXCEPT !.mailbox = NoMailbox])
            /\ UNCHANGED <<mailboxes, allocs>>
       ELSE /\ mailboxes' = [mailboxes EXCEPT ![path] = findByIdAndUpdate(before)]
            /\ Goto(p, "getThreadId",
                    [ap[p] EXCEPT !.uid = before.uidNext,
                                  !.modseq = before.modifyIndex + 1])
            /\ allocs' = Append(allocs,
                 [id |-> ap[p].id, mailbox |-> path, uid |-> before.uidNext,
                  modseq |-> before.modifyIndex + 1])
  /\ UNCHANGED <<res, messages, attachments, journal, storageUsed, exists, owner,
                 clock, started, wspRequests, cleaned, fired, job, stripe>>

(* line 721: Threads.getThreadId *)
GetThreadId(p, fails) ==
  /\ pc[p] = "getThreadId"
  /\ IF fails THEN Throw(p, Thrown("getThreadId"), ap[p])
              ELSE Goto(p, "create", ap[p])
  /\ UNCHANGED <<res, storage, owner, clock, started, allocs, wspRequests, cleaned, fired, job, stripe>>

(* lines 645-730: the document handed to Messages.create *)
\* lines 642-643: a retention that is not a number counts as 0
retentionOf(mailbox) ==
  IF mailbox.retention # NotANumber THEN mailbox.retention ELSE 0

\* the derived fields are computed from flags when data is built (lines
\* 650-664, 711, 718); \Draft is pushed onto data.flags after that (line 715)
MessageData(a) ==
  LET mailbox == mailboxes[a.mailbox] IN
  [id |-> a.id, mailbox |-> a.mailbox, uid |-> a.uid, modseq |-> a.modseq,
   fingerprint |-> a.fingerprint, size |-> a.size,
   flags |-> IF mailbox.specialUse = Drafts THEN a.flags \cup {Draft}
             ELSE a.flags,
   unseen |-> Seen \notin a.flags, flagged |-> Flagged \in a.flags,
   undeleted |-> Deleted \notin a.flags, draft |-> Draft \in a.flags,
   searchable |-> Deleted \notin a.flags, junk |-> mailbox.specialUse = Junk,
   exp |-> retentionOf(mailbox) # 0,
   encrypted |-> a.encrypted, attachments |-> a.attachmentMap,
   session |-> [checkForExisting |-> a.checkForExisting]]

CreateMessage(p, fails) ==
  /\ pc[p] = "create"
  /\ IF fails
       THEN /\ Throw(p, Thrown("create"), ap[p])
            /\ UNCHANGED messages
       ELSE /\ messages' = messages \cup {MessageData(ap[p])}
            /\ Goto(p, "updateStorageUsed", ap[p])
  /\ UNCHANGED <<res, mailboxes, attachments, journal, storageUsed, exists, owner,
                 clock, started, allocs, wspRequests, cleaned, fired, job, stripe>>

\* a storage update whose error reaches the outer catch block
AfterStorageError_Rethrow(p, a) == Throw(p, Thrown("updateStorageUsed"), a)

\* lines 742-744: the error is logged and the append goes on
AfterStorageError(p, a) ==
  Goto(p, "broadcast", [a EXCEPT !.logged = @ \cup {"updateStorageUsed"}])

(* lines 739-744: updateStorageUsed; a failure is caught and logged *)
UpdateStorage(p, fails) ==
  /\ pc[p] = "updateStorageUsed"
  /\ storageUsed' = IF fails THEN storageUsed ELSE updateStorageUsed
  /\ IF fails THEN AfterStorageError(p, ap[p]) ELSE Goto(p, "broadcast", ap[p])
  /\ UNCHANGED <<res, mailboxes, messages, attachments, journal, exists, owner,
                 clock, started, allocs, wspRequests, cleaned, fired, job, stripe>>

(* lines 746-766: the live EXISTS to the appending session *)
Broadcast(p, selected, fails) ==
  /\ pc[p] = "broadcast"
  /\ LET a == [ap[p] EXCEPT !.selected = selected] IN
     IF selected /\ fails
       THEN /\ Throw(p, Thrown("broadcast"), a)
            /\ UNCHANGED exists
       ELSE /\ Goto(p, "addEntries", a)
            /\ exists' = IF selected
                           THEN Append(exists, [id |-> a.id, uid |-> a.uid,
                                                mailbox |-> a.mailbox])
                           ELSE exists
  /\ UNCHANGED <<res, mailboxes, messages, attachments, journal, storageUsed,
                 owner, clock, started, allocs, wspRequests, cleaned, fired, job, stripe>>

(* lines 746-779: the journal entry, the wake signal and the response *)
Response(a) ==
  [type |-> "success", status |-> "new", uid |-> a.uid, id |-> a.id,
   mailbox |-> a.mailbox, size |-> a.size, err |-> NoError]

\* a journal entry that is never marked
ignore_Never(a) == FALSE

\* lines 769-771: the entry is marked ignore when the session's selected
\* mailbox is the mailbox of the message
ignore(a) == a.selected

AddEntries(p, fails) ==
  /\ pc[p] = "addEntries"
  /\ IF fails
       THEN /\ Throw(p, Thrown("addEntries"), ap[p])
            /\ UNCHANGED <<journal, fired, res>>
       ELSE /\ journal' = Append(journal,
                 [ignore |-> ignore(ap[p]), command |-> "EXISTS",
                  uid |-> ap[p].uid, mailbox |-> ap[p].mailbox,
                  message |-> ap[p].id])
            /\ fired' = Append(fired, ap[p].id)
            /\ Success(p, ap[p], Response(ap[p]))
            /\ Goto(p, "done", ap[p])
  /\ UNCHANGED <<mailboxes, messages, attachments, storageUsed, exists, owner,
                 clock, started, allocs, wspRequests, cleaned, job, stripe>>

\* a cleanup error that takes the place of the append's error
AfterCleanupError_Replace(a) == [a EXCEPT !.err = Thrown("deleteMany")]

\* lines 797-802: the cleanup error is logged, err is still the append's
AfterCleanupError(a) == [a EXCEPT !.logged = @ \cup {"deleteMany"}]

\* a catch block that forgets the attachment map
attachmentIds_Dropped(a) == {}

(* lines 780-806: the catch block: attachment cleanup, then fn(err) *)
attachmentIds(a) ==
  IF a.hasNodeBodies /\ a.mimeTreeData THEN a.attachmentMap ELSE {}

Catch(p, fails) ==
  /\ pc[p] = "catch"
  /\ LET ids == attachmentIds(ap[p]) IN
     IF ids = {}
       THEN /\ Failure(p, ap[p], ap[p].err)
            /\ Goto(p, "done", ap[p])
            /\ UNCHANGED <<attachments, cleaned>>
       ELSE /\ cleaned' = Append(cleaned, [id |-> ap[p].id, ids |-> ids,
                                             failed |-> fails])
            /\ attachments' = IF fails THEN attachments
                              ELSE deleteMany(attachments, ids)
            /\ Goto(p, "report",
                    IF fails THEN AfterCleanupError(ap[p]) ELSE ap[p])
            /\ UNCHANGED res
  /\ UNCHANGED <<mailboxes, messages, journal, storageUsed, exists, owner, clock,
                 started, allocs, wspRequests, fired, job, stripe>>

\* line 805, after the awaited cleanup
Report(p) ==
  /\ pc[p] = "report"
  /\ Failure(p, ap[p], ap[p].err)
  /\ Goto(p, "done", ap[p])
  /\ UNCHANGED <<storage, owner, clock, started, allocs, wspRequests, cleaned, fired, job, stripe>>

\* the connection is free for its next command
Return(p) ==
  /\ pc[p] = "done"
  /\ Goto(p, "idle", NoAppend)
  /\ res' = [res EXCEPT ![p] = NoResult]
  /\ UNCHANGED <<storage, owner, clock, started, allocs, wspRequests, cleaned, fired, job, stripe>>

(* ----------------------------------------------------------------------- *)
(* the environment: folder management deletes a mailbox; time passes       *)
(* ----------------------------------------------------------------------- *)
DeleteMailbox(path) ==
  /\ mailboxes[path].exists
  /\ mailboxes' = [mailboxes EXCEPT ![path].exists = FALSE]
  /\ UNCHANGED <<pc, ap, res, messages, attachments, journal, storageUsed,
                 exists, owner, clock, started, allocs, wspRequests, cleaned, fired, job, stripe>>

\* the clock counts hours: an append and the delivery of an alert email
\* take less than that, so time advances between them
Tick(hours) ==
  /\ ticks < MaxTicks
  /\ \A p \in Procs : pc[p] = "idle"
  /\ emails = {}
  /\ ticks' = ticks + 1
  /\ clock' = clock + hours
  /\ UNCHANGED <<pc, ap, res, storage, maxQuotaPerAlias, budget,
                 pgp_error_sent_at, emails, alerts, unsets, started, allocs,
                 wspRequests, cleaned, fired, job, stripe>>

(* ----------------------------------------------------------------------- *)
(* lines 91-241: the storage cleanup job, an async function run once.      *)
(* Promise.all starts one size request per alias id; each request is       *)
(* awaited inside its own try/catch.                                       *)
(* ----------------------------------------------------------------------- *)
appends == <<pc, ap, res, storage, owner, clock, started, allocs, wspRequests,
             cleaned, fired>>

\* line 94: a cancelled job returns from the function at once
JobStart(isCancelled) ==
  /\ job.pc = "start"
  /\ job' = [job EXCEPT !.pc = IF isCancelled THEN "returned" ELSE "readdir"]
  /\ UNCHANGED <<appends, stripe>>

\* lines 96-159: scan the mount directory, unlink stale backups, collect ids
JobScan(ids, stale, fails) ==
  /\ job.pc = "readdir"
  /\ job' = IF fails THEN [job EXCEPT !.pc = "catch"]
            ELSE [job EXCEPT !.pc = IF ids = {} THEN "final" ELSE "distinct",
                             !.ids = ids,
                             !.emails = IF stale THEN @ \cup {"stale"} ELSE @]
  /\ UNCHANGED <<appends, stripe>>

\* lines 160-198: drop the banned or removed ids, then start the requests
JobDistinct(badIds, fails) ==
  /\ job.pc = "distinct"
  /\ badIds \subseteq job.ids
  /\ job' = IF fails THEN [job EXCEPT !.pc = "catch"]
            ELSE [job EXCEPT
                    !.pc = "size",
                    !.ids = @ \ badIds,
                    !.emails = IF badIds # {} THEN @ \cup {"banned"} ELSE @,
                    !.requests = [id \in AliasIds |->
                                   IF id \in job.ids \ badIds THEN "pending"
                                   ELSE "none"]]
  /\ UNCHANGED <<appends, stripe>>

\* a request whose error rejects Promise.all
AfterSizeError_Rethrow(j, id, outcome) ==
  [j EXCEPT !.requests[id] = outcome, !.pc = "catch"]

\* lines 205-216: the error of a request is swallowed
AfterSizeError(j, id, outcome) == [j EXCEPT !.requests[id] = outcome]

\* lines 199-204: wsp.request resolves, rejects, or times out after 5s
SizeOutcomes == {"ok", "error", "timeout"}

SizeResult(id, outcome) ==
  /\ job.pc = "size"
  /\ job.requests[id] = "pending"
  /\ job' = IF outcome = "ok" THEN [job EXCEPT !.requests[id] = outcome]
            ELSE AfterSizeError(job, id, outcome)
  /\ UNCHANGED <<appends, stripe>>

\* line 197: Promise.all resolves once every request has settled
JobSettled ==
  /\ job.pc = "size"
  /\ \A id \in AliasIds : job.requests[id] # "pending"
  /\ job' = [job EXCEPT !.pc = "final"]
  /\ UNCHANGED <<appends, stripe>>

\* lines 220-237: the error alert; an email that fails rejects the function
JobCatch(fails) ==
  /\ job.pc = "catch"
  /\ job' = IF fails THEN [job EXCEPT !.pc = "rejected"]
            ELSE [job EXCEPT !.pc = "final", !.emails = @ \cup {"error"}]
  /\ UNCHANGED <<appends, stripe>>

\* lines 239-240: postMessage('done') or process.exit(0)
JobFinal ==
  /\ job.pc = "final"
  /\ job' = [job EXCEPT !.pc = "done"]
  /\ UNCHANGED <<appends, stripe>>

(* ----------------------------------------------------------------------- *)
(* The two handlers of a paid Stripe checkout: the payment-intent-succeeded *)
(* webhook (handlePaymentIntentSucceeded) and the checkout redirect         *)
(* (handleStripeRedirect). Each looks the Payment up and creates it when    *)
(* the lookup found none.                                                   *)
(* ----------------------------------------------------------------------- *)
others == <<appends, job>>

\* the Payments model is loaded: its schema has a unique index on
\* stripe_payment_intent_id, or has none
EnsureIndexes(unique) ==
  /\ stripe.unique = "unknown"
  /\ stripe' = [stripe EXCEPT !.unique = unique]
  /\ UNCHANGED others

\* Payments.findOne({user, stripe_payment_intent_id})
PaymentsFindOne(id) ==
  \E i \in DOMAIN stripe.Payments :
    stripe.Payments[i].stripe_payment_intent_id = id

\* Payments.create: a duplicate key is refused under a unique index
DuplicateKey(id) == stripe.unique = "unique" /\ PaymentsFindOne(id)

PaymentsCreate(h, id) ==
  Append(stripe.Payments, [stripe_payment_intent_id |-> id, by |-> h])

\* part_001 lines 22-95: the event's payment intent, its successful charge,
\* the checkout session and the plan; any error goes to the catch block
WebhookStart(id, fails) ==
  /\ stripe.unique # "unknown"
  /\ stripe.pc["webhook"] = "start"
  /\ stripe' = IF fails
                 THEN [stripe EXCEPT !.pc["webhook"] = "done", !.alerts = @ + 1]
                 ELSE [stripe EXCEPT !.pc["webhook"] = "findOne",
                                     !.paymentIntent["webhook"] = id]
  /\ UNCHANGED others

\* part_001 lines 113-120
WebhookFindOne ==
  /\ stripe.pc["webhook"] = "findOne"
  /\ LET payment == PaymentsFindOne(stripe.paymentIntent["webhook"]) IN
     stripe' = [stripe EXCEPT !.payment["webhook"] = payment,
                              !.pc["webhook"] = IF payment THEN "done"
                                                ELSE "create"]
  /\ UNCHANGED others

\* part_001 lines 122-154: create the Payment; an error of the create goes
\* to the catch block, which emails the alert
WebhookCreate ==
  /\ stripe.pc["webhook"] = "create"
  /\ LET id == stripe.paymentIntent["webhook"] IN
     stripe' = IF DuplicateKey(id)
                 THEN [stripe EXCEPT !.pc["webhook"] = "done", !.alerts = @ + 1]
                 ELSE [stripe EXCEPT !.pc["webhook"] = "done",
                                     !.Payments = PaymentsCreate("webhook", id)]
  /\ UNCHANGED others

\* handle-stripe-redirect.js lines 20-114: the checkout session, which must
\* be paid, its payment intent and successful charge, the plan
RedirectStart(id, fails) ==
  /\ stripe.unique # "unknown"
  /\ stripe.pc["redirect"] = "start"
  /\ stripe' = IF fails
                 THEN [stripe EXCEPT !.pc["redirect"] = "thrown"]
                 ELSE [stripe EXCEPT !.pc["redirect"] = "findOne",
                                     !.paymentIntent["redirect"] = id]
  /\ UNCHANGED others

\* handle-stripe-redirect.js lines 116-121
RedirectFindOne ==
  /\ stripe.pc["redirect"] = "findOne"
  /\ LET payment == PaymentsFindOne(stripe.paymentIntent["redirect"]) IN
     stripe' = [stripe EXCEPT !.payment["redirect"] = payment,
                              !.pc["redirect"] = IF payment THEN "save"
                                                 ELSE "create"]
  /\ UNCHANGED others

\* handle-stripe-redirect.js lines 123-146: an error of the create is thrown
\* to the caller
RedirectCreate ==
  /\ stripe.pc["redirect"] = "create"
  /\ LET id == stripe.paymentIntent["redirect"] IN
     stripe' = IF DuplicateKey(id)
                 THEN [stripe EXCEPT !.pc["redirect"] = "thrown"]
                 ELSE [stripe EXCEPT !.pc["redirect"] = "save",
                                     !.Payments = PaymentsCreate("redirect", id)]
  /\ UNCHANGED others

\* handle-stripe-redirect.js lines 148-149: the user's plan is saved
RedirectSave ==
  /\ stripe.pc["redirect"] = "save"
  /\ stripe' = [stripe EXCEPT !.pc["redirect"] = "done", !.plan = "paid"]
  /\ UNCHANGED others

(* ----------------------------------------------------------------------- *)
(* The inputs of the calls are drawn from the sets of an input record:     *)
(*   procs     the connections that issue APPEND                           *)
(*   wsp       whether this.wsp is set (the append is delegated)           *)
(*   sizes     byte lengths of raw                                         *)
(*   paths     mailbox paths given to APPEND                               *)
(*   flagSets  flags given to APPEND                                       *)
(*   keys      whether the owner has PGP enabled with a public key         *)
(*   outcomes  how encryptMessage ends                                     *)
(*   fps       fingerprints (getFingerprint of the content)                *)
(*   nodeSets  content hashes of the attachment nodes of the message       *)
(*   dedup     session.checkForExisting                                    *)
(*   selects   whether the session has the target mailbox selected         *)
(*   faults    the awaited calls that may throw                            *)
(*   sent      whether the alert email is delivered                        *)
(*   deletable mailboxes that folder management may delete                 *)
(* ----------------------------------------------------------------------- *)
MayFail(c, what) == IF what \in c.faults THEN BOOLEAN ELSE {FALSE}

NextWith(c) ==
  \/ \E p \in c.procs, viaWsp \in c.wsp, rawSize \in c.sizes :
       Begin(p, viaWsp, rawSize)
  \/ \E p \in c.procs, fails \in MayFail(c, "refreshSession") :
       RefreshSession(p, fails)
  \/ \E p \in c.procs : QuotaPreCheck(p)
  \/ \E p \in c.procs, path \in c.paths : FindMailbox(p, path)
  \/ \E p \in c.procs, flags \in c.flagSets, hasKey \in c.keys,
        outcome \in c.outcomes : EncryptGate(p, flags, hasKey, outcome)
  \/ \E p \in c.procs, f \in c.fps, nodes \in c.nodeSets,
        fails \in MayFail(c, "prepareMessage") : PrepareMessage(p, f, nodes, fails)
  \/ \E p \in c.procs, d \in c.dedup : CheckForExisting(p, d)
  \/ \E p \in c.procs : QuotaCheck(p)
  \/ \E p \in c.procs, stored \in SUBSET Hashes,
        fails \in MayFail(c, "storeNodeBodies") : StoreNodeBodies(p, stored, fails)
  \/ \E p \in c.procs : Allocate(p)
  \/ \E p \in c.procs, fails \in MayFail(c, "getThreadId") : GetThreadId(p, fails)
  \/ \E p \in c.procs, fails \in MayFail(c, "create") : CreateMessage(p, fails)
  \/ \E p \in c.procs, fails \in MayFail(c, "updateStorageUsed") :
       UpdateStorage(p, fails)
  \/ \E p \in c.procs, selected \in c.selects, fails \in MayFail(c, "broadcast") :
       Broadcast(p, selected, fails)
  \/ \E p \in c.procs, fails \in MayFail(c, "addEntries") : AddEntries(p, fails)
  \/ \E p \in c.procs, fails \in MayFail(c, "deleteMany") : Catch(p, fails)
  \/ \E p \in c.procs : Report(p)
  \/ \E p \in c.procs : Return(p)
  \/ \E path \in c.deletable : DeleteMailbox(path)

\* the inputs every specification starts from: one mailbox, one message
\* content with one attachment, no encryption, no dedup, nothing fails
Plain ==
  [procs |-> Procs, wsp |-> {FALSE}, sizes |-> {1}, paths |-> {"INBOX"}, flagSets |-> {{}},
   keys |-> {FALSE}, outcomes |-> {"ok"}, fps |-> {"f1"},
   nodeSets |-> {{"h1"}}, dedup |-> {FALSE}, selects |-> {FALSE},
   faults |-> {}, sent |-> {TRUE}, deletable |-> {}]

\* concurrent appends with dedup, a failing persist and a deleted mailbox
Concurrent ==
  [Plain EXCEPT !.fps = Fingerprints, !.dedup = BOOLEAN,
                !.faults = {"create"}, !.deletable = {"INBOX"}]

Init == InitWith(MaxQuotaPerAlias, MaxAppends)
Next == NextWith(Concurrent)
Spec == Init /\ [][Next]_vars

\* messages with one or two attachments, a failing persist and a failing
\* cleanup
Blobs ==
  [Plain EXCEPT !.nodeSets = {{"h1"}, {"h1", "h2"}},
                !.faults = {"create", "deleteMany"}, !.deletable = {"INBOX"}]
NextBlobs == NextWith(Blobs)
SpecBlobs == Init /\ [][NextBlobs]_vars

\* appends to a mailbox the session may have selected, whose persist, storage
\* update, live event and journal write may throw
Notify ==
  [Plain EXCEPT !.selects = BOOLEAN,
                !.faults = {"create", "updateStorageUsed", "broadcast",
                            "addEntries"},
                !.deletable = {"INBOX"}]
NextNotify == NextWith(Notify)
SpecNotify == Init /\ [][NextNotify]_vars

\* appends whose storage update may throw and nothing else
Storage ==
  [Plain EXCEPT !.selects = BOOLEAN, !.faults = {"updateStorageUsed"},
                !.deletable = {"INBOX"}]
NextStorage == NextWith(Storage)
SpecStorage == Init /\ [][NextStorage]_vars

\* the same content appended to two mailboxes, with and without dedup, by
\* one connection
Dedup ==
  [Plain EXCEPT !.procs = {"c1"}, !.paths = Paths, !.dedup = BOOLEAN,
                !.deletable = {"INBOX"}]
InitDedup == InitWith(MaxQuotaPerAlias, MaxSerialAppends)
NextDedup == NextWith(Dedup)
SpecDedup == InitDedup /\ [][NextDedup]_vars

\* messages with two attachments whose blob storage, thread resolution or
\* persist may throw
Failures ==
  [Plain EXCEPT !.nodeSets = {{"h1", "h2"}},
                !.faults = {"storeNodeBodies", "getThreadId", "create"},
                !.deletable = {"INBOX"}]
NextFailures == NextWith(Failures)
SpecFailures == Init /\ [][NextFailures]_vars

\* appends with every set of flags to a mailbox of every special use and
\* retention, by one connection
SpecialUses == {"none", Drafts, Junk}
Retentions == {NotANumber, 0, 1}
Flags ==
  [Plain EXCEPT !.procs = {"c1"},
                !.flagSets = SUBSET {Seen, Flagged, Deleted, Draft},
                !.deletable = {"INBOX"}]
InitFlags ==
  InitBoxes(MaxQuotaPerAlias, MaxAppends,
            {[path \in Paths |-> IF path = "INBOX" THEN Box(specialUse, retention)
                                 ELSE Box("none", 0)] :
               specialUse \in SpecialUses, retention \in Retentions})
NextFlags == NextWith(Flags)
SpecFlags == InitFlags /\ [][NextFlags]_vars

\* appends of two sizes, one after another, up to the quota
Quota == [Plain EXCEPT !.sizes = {1, 2}, !.deletable = {"INBOX"}]
InitQuota == InitWith(MaxQuotaPerAlias, MaxSerialAppends)
NextQuota == NextWith(Quota)
SpecQuota == InitQuota /\ [][NextQuota]_vars

\* delegated and direct appends around the 64 MB cap, under a quota that
\* has room for them
LargeQuota == 4 * SIXTY_FOUR_MB_IN_BYTES
Wsp ==
  [Plain EXCEPT !.wsp = BOOLEAN,
                !.sizes = {SIXTY_FOUR_MB_IN_BYTES, SIXTY_FOUR_MB_IN_BYTES + 1},
                !.deletable = {"INBOX"}]
InitWsp == InitWith(LargeQuota, MaxAppends)
NextWsp == NextWith(Wsp)
SpecWsp == InitWsp /\ [][NextWsp]_vars

\* the encryption gate over time, for the appends of one connection: drafts,
\* owners with and without a key, every class of encryption error, alert
\* emails that are sent or fail
Gate ==
  [Plain EXCEPT !.procs = {"c1"}, !.flagSets = FlagSets, !.keys = BOOLEAN,
                !.outcomes = EncryptOutcomes, !.sent = BOOLEAN,
                !.deletable = {"INBOX"}]
Hours == {ONE_HOUR, ONE_DAY - ONE_HOUR}
InitGate == InitWith(MaxQuotaPerAlias, MaxSerialAppends)
NextGate ==
  \/ NextWith(Gate)
  \/ \E e \in emails, sent \in Gate.sent : EmailResult(e, sent)
  \/ \E hours \in Hours : Tick(hours)
SpecGate == InitGate /\ [][NextGate]_vars

\* two connections whose appends fail encryption within the same hour,
\* with alert emails that are sent or fail
Race ==
  [Plain EXCEPT !.keys = {TRUE}, !.outcomes = {"permanent", "retryable"},
                !.sent = BOOLEAN, !.deletable = {"INBOX"}]
NextRace ==
  \/ NextWith(Race)
  \/ \E e \in emails, sent \in Race.sent : EmailResult(e, sent)
SpecRace == Init /\ [][NextRace]_vars

\* the cleanup job; every request settles (the timeout sees to that), and
\* the function goes on when it can
NextJob ==
  \/ \E isCancelled \in BOOLEAN : JobStart(isCancelled)
  \/ \E ids \in SUBSET AliasIds, stale \in BOOLEAN, fails \in BOOLEAN :
       JobScan(ids, stale, fails)
  \/ \E badIds \in SUBSET AliasIds, fails \in BOOLEAN : JobDistinct(badIds, fails)
  \/ \E id \in AliasIds, outcome \in SizeOutcomes : SizeResult(id, outcome)
  \/ JobSettled
  \/ \E fails \in BOOLEAN : JobCatch(fails)
  \/ JobFinal
SpecJob ==
  /\ Init /\ [][NextJob]_vars
  /\ WF_vars(\E id \in AliasIds, outcome \in SizeOutcomes : SizeResult(id, outcome))
  /\ WF_vars(JobSettled)
  /\ WF_vars(JobFinal)

\* the webhook and the redirect of a paid checkout, in any interleaving
NextStripe ==
  \/ \E unique \in {"unique", "plain"} : EnsureIndexes(unique)
  \/ \E id \in PaymentIntents, fails \in BOOLEAN : WebhookStart(id, fails)
  \/ WebhookFindOne
  \/ WebhookCreate
  \/ \E id \in PaymentIntents, fails \in BOOLEAN : RedirectStart(id, fails)
  \/ RedirectFindOne
  \/ RedirectCreate
  \/ RedirectSave
SpecStripe == Init /\ [][NextStripe]_vars

(* ======================================================================= *)
(* Properties                                                              *)
(* ======================================================================= *)
Allocated == {"getThreadId", "create", "updateStorageUsed", "broadcast",
              "addEntries"}

\* C1: the (uid, modseq) pairs handed out for one mailbox are strictly
\* increasing in allocation order, so no two appends obtain the same uid or
\* the same modseq, and no two stored messages of a mailbox share a uid.
AllocationsStrictlyIncreasing ==
  /\ \A i, j \in DOMAIN allocs :
       (i < j /\ allocs[i].mailbox = allocs[j].mailbox)
         => (allocs[i].uid < allocs[j].uid /\ allocs[i].modseq < allocs[j].modseq)
  /\ \A m1, m2 \in messages :
       (m1.mailbox = m2.mailbox /\ (m1.uid = m2.uid \/ m1.modseq = m2.modseq))
         => m1 = m2

\* two connections hold identifiers of the same mailbox at the same time
ConcurrentAllocations ==
  \E p, q \in Procs :
    /\ p # q /\ pc[p] \in Allocated /\ pc[q] \in Allocated
    /\ ap[p].mailbox = ap[q].mailbox /\ ap[p].uid # ap[q].uid

\* C2: two appends with the same fingerprint to the same mailbox, both
\* requesting dedup, leave exactly one stored Message with that pair.
DedupStoresOnce ==
  \A m1, m2 \in messages :
    ( /\ m1.fingerprint = m2.fingerprint /\ m1.mailbox = m2.mailbox
      /\ m1.session.checkForExisting /\ m2.session.checkForExisting )
      => m1 = m2

\* the response names a message another append stored
ReturnedExisting(p) ==
  pc[p] = "done" /\ res[p].type = "success" /\ res[p].id # ap[p].id

\* C3: a dedup hit is answered with status "existing", a new message with
\* status "new".
ExistingHasStatusExisting ==
  \A p \in Procs :
    (pc[p] = "done" /\ res[p].type = "success")
      => res[p].status = (IF res[p].id = ap[p].id THEN "new" ELSE "existing")

\* C4: every step of an append up to and including its dedup lookup, the hit
\* itself included, leaves the mailbox counters, the Messages, the blobs, the
\* Journal, the storage-used value and the live EXISTS events as they were.
UpToDedup == {"idle", "refreshSession", "isOverQuota", "findMailbox", "encrypt",
              "prepareMessage", "checkForExisting"}

DedupHitChangesNothing ==
  [][\A p \in Procs :
       (pc[p] \in UpToDedup /\ pc'[p] # pc[p]) => UNCHANGED storage]_vars

\* a dedup hit after the other connection has stored the message
DedupHitReached ==
  \E p \in Procs :
    /\ ReturnedExisting(p) /\ ap[p].checkForExisting
    /\ \E m \in messages : m.id = res[p].id /\ m.uid = res[p].uid

\* C6: an append to a path that has no mailbox fails with the mailbox-not-found
\* error and the TRYCREATE hint, the mailbox is not created, and no step of
\* that call changes storage.
LookupFailed(a) == a.err = MailboxDoesNotExist /\ a.fingerprint = "none"

MissingMailboxFails ==
  [][\A p \in Procs :
       /\ (pc[p] \in {"idle", "refreshSession", "isOverQuota"} /\ pc'[p] # pc[p])
            => UNCHANGED storage
       /\ (pc[p] = "findMailbox" /\ pc'[p] # pc[p])
            => /\ UNCHANGED storage
               /\ IF mailboxes[ap'[p].path].exists
                    THEN pc'[p] = "encrypt"
                    ELSE pc'[p] = "catch" /\ LookupFailed(ap'[p])
       /\ (pc[p] = "catch" /\ LookupFailed(ap[p]) /\ pc'[p] # pc[p])
            => /\ UNCHANGED storage
               /\ pc'[p] = "done"
               /\ res'[p].type # "success"
               /\ res'[p].err.imapResponse = "TRYCREATE"]_vars

MissingMailboxReported ==
  \E p \in Procs :
    /\ pc[p] = "done" /\ LookupFailed(ap[p])
    /\ res[p].type = "error" /\ res[p].err = MailboxDoesNotExist
    /\ ~mailboxes[ap[p].path].exists

\* C5: at the final quota check an append with storageUsed + size equal to
\* the domain's maximum goes on to store its bodies, and one with a byte more
\* fails with the over-quota error, reported with the OVERQUOTA hint.
QuotaBoundary ==
  [][\A p \in Procs :
       /\ (pc[p] = "getMaxQuota" /\ pc'[p] # pc[p])
            => IF ap[p].storageUsed + ap[p].size <= maxQuotaPerAlias
                 THEN pc'[p] = "storeNodeBodies" /\ ap'[p].err = NoError
                 ELSE pc'[p] = "catch" /\ ap'[p].err = MessageExceedsQuota
       /\ (pc[p] = "catch" /\ ap[p].err = MessageExceedsQuota /\ pc'[p] # pc[p])
            => /\ pc'[p] = "done"
               /\ res'[p].type # "success"
               /\ res'[p].err.imapResponse = "OVERQUOTA"]_vars

\* one append accepted exactly at the limit, another rejected one byte above
QuotaBoundaryReached ==
  \E p, q \in Procs :
    /\ pc[p] = "storeNodeBodies" /\ ap[p].storageUsed > 0
    /\ ap[p].storageUsed + ap[p].size = maxQuotaPerAlias
    /\ pc[q] = "done" /\ ap[q].err = MessageExceedsQuota
    /\ ap[q].storageUsed + ap[q].size = maxQuotaPerAlias + 1
    /\ res[q].type = "error" /\ res[q].err.imapResponse = "OVERQUOTA"

\* C7: an append whose raw message is larger than 64 MiB is rejected at once
\* with the message-too-large error, on the delegated and on the direct path:
\* it never gets past the entry of onAppend.
OversizeAlwaysRejected ==
  \A p \in Procs :
    ap[p].rawSize > SIXTY_FOUR_MB_IN_BYTES
      => /\ pc[p] = "done"
         /\ res[p].type = "error" /\ res[p].err = MessageSizeExceeded

\* what the direct path does with such a message
OversizeNeverStored ==
  \A m \in messages : m.size <= SIXTY_FOUR_MB_IN_BYTES

\* C8: after an encryption error of any class the append goes on: raw stays
\* unencrypted, the only errors it can still end with are those of later
\* steps, and when none occurs the message is stored unencrypted and the
\* caller gets the success response.
GateFailed(a) == a.gate \in {"codeBug", "retryable", "permanent"}

LaterErrors ==
  {Thrown("prepareMessage"), MessageExceedsQuota, Thrown("storeNodeBodies"),
   MailboxDoesNotExist, Thrown("getThreadId"), Thrown("create"),
   Thrown("broadcast"), Thrown("addEntries")}

EncryptionFailureDoesNotAbort ==
  \A p \in Procs :
    GateFailed(ap[p]) =>
      /\ ~ap[p].encrypted
      /\ ap[p].err \in LaterErrors \cup {NoError}
      /\ pc[p] \in {"catch", "report"} => ap[p].err # NoError
      /\ (pc[p] = "done" /\ ap[p].err = NoError /\ ~ReturnedExisting(p))
           => /\ res[p].type = "success" /\ res[p].status = "new"
              /\ \E m \in messages :
                   m.id = ap[p].id /\ m.uid = res[p].uid /\ ~m.encrypted

StoredAfterEncryptionFailure ==
  \E p \in Procs :
    /\ ap[p].gate = "permanent" /\ pc[p] = "done" /\ res[p].type = "success"
    /\ \E m \in messages : m.id = ap[p].id /\ ~m.encrypted
    /\ \E i \in DOMAIN alerts : alerts[i].id = ap[p].id

PersistFailureCleansBlobs ==
  [][\A p \in Procs :
       ( /\ pc[p] = "catch" /\ ap[p].err = Thrown("create")
         /\ pc'[p] # pc[p] /\ ap[p].attachmentMap # {} )
         => /\ ap[p].hasNodeBodies /\ ap[p].attachmentMap = ap[p].nodes
            /\ pc'[p] = "report" /\ res'[p] = NoResult
            /\ Len(cleaned') = Len(cleaned) + 1
            /\ LET call == cleaned'[Len(cleaned')] IN
                 /\ call.id = ap[p].id
                 /\ call.ids = ap[p].attachmentMap
                 /\ ~call.failed =>
                      \A h \in call.ids : attachments'[h] = attachments[h] - 1]_vars

PersistFailureCleaned ==
  \E p \in Procs :
    /\ pc[p] = "done" /\ res[p].type = "error" /\ res[p].err = Thrown("create")
    /\ \E i \in DOMAIN cleaned :
         /\ cleaned[i].id = ap[p].id /\ ~cleaned[i].failed
         /\ cleaned[i].ids = {"h1", "h2"}
    /\ attachments["h2"] = 0

(* ----------------------------------------------------------------------- *)
(* failures after the Message was persisted                                *)
(* ----------------------------------------------------------------------- *)
Persisted(id) == \E m \in messages : m.id = id
CleanedFor(id) == \E i \in DOMAIN cleaned : cleaned[i].id = id
JournalFor(id) == {i \in DOMAIN journal : journal[i].message = id}

\* C11: every blob a stored Message refers to is present in the attachment
\* storage: no cleanup of a failing append has released the last reference.
StoredMessagesKeepBlobs ==
  \A m \in messages : \A h \in m.attachments : attachments[h] > 0

\* what protects the blob of a message stored by another append: the failing
\* append releases the reference it took itself
OtherAppendsKeepBlobs ==
  \A m \in messages : \A h \in m.attachments :
    attachments[h] > 0 \/ CleanedFor(m.id)

\* C12: an append whose Message was persisted ends with the success response
\* of status "new" and without attachment cleanup, whether or not the live
\* event or the journal write threw.
NotificationFailureDoesNotAbort ==
  \A p \in Procs :
    (Persisted(ap[p].id) /\ pc[p] \notin {"updateStorageUsed", "broadcast", "addEntries"})
      => /\ pc[p] = "done"
         /\ res[p].type = "success" /\ res[p].status = "new"
         /\ ~CleanedFor(ap[p].id)

\* C13: an append answered with success and status "new" has written exactly
\* one Journal entry, an EXISTS with the uid, mailbox and id of the Message
\* it stored; a Journal entry is written only for a persisted Message, and an
\* append that fails before persisting writes none.
JournalEntryPerNewMessage ==
  /\ \A p \in Procs :
       (pc[p] = "done" /\ res[p].type = "success" /\ res[p].status = "new")
         => /\ Cardinality(JournalFor(ap[p].id)) = 1
            /\ \A i \in JournalFor(ap[p].id) :
                 /\ journal[i].command = "EXISTS"
                 /\ journal[i].uid = res[p].uid
                 /\ journal[i].mailbox = res[p].mailbox
                 /\ \E m \in messages :
                      m.id = ap[p].id /\ m.uid = journal[i].uid
                        /\ m.mailbox = journal[i].mailbox
  /\ \A i \in DOMAIN journal : Persisted(journal[i].message)
  /\ \A p \in Procs :
       (pc[p] = "done" /\ ~Persisted(ap[p].id)) => JournalFor(ap[p].id) = {}

\* the same for the appends that stored a Message themselves
JournalEntryPerStoredMessage ==
  /\ \A p \in Procs :
       (pc[p] = "done" /\ res[p].type = "success" /\ res[p].id = ap[p].id)
         => /\ Cardinality(JournalFor(ap[p].id)) = 1
            /\ \A i \in JournalFor(ap[p].id) :
                 /\ journal[i].command = "EXISTS"
                 /\ journal[i].uid = res[p].uid
                 /\ journal[i].mailbox = res[p].mailbox
  /\ \A i \in DOMAIN journal : Persisted(journal[i].message)

\* C14: the allocation hands out uidNext and modifyIndex + 1 as they were
\* before it and raises both counters by exactly 1; no other step of an
\* append changes them; the Message is stored with these identifiers and the
\* uid given to the caller is the stored Message's uid.
IdentifiersArePreIncrement ==
  [][\A p \in Procs :
       /\ (pc[p] = "findByIdAndUpdate" /\ pc'[p] = "getThreadId")
            => LET before == mailboxes[ap[p].mailbox]
                   after == mailboxes'[ap[p].mailbox] IN
               /\ ap'[p].uid = before.uidNext
               /\ ap'[p].modseq = before.modifyIndex + 1
               /\ after.uidNext = before.uidNext + 1
               /\ after.modifyIndex = before.modifyIndex + 1
       /\ (pc'[p] # pc[p] /\ ~(pc[p] = "findByIdAndUpdate" /\ pc'[p] = "getThreadId"))
            => /\ \A path \in Paths :
                    /\ mailboxes'[path].uidNext = mailboxes[path].uidNext
                    /\ mailboxes'[path].modifyIndex = mailboxes[path].modifyIndex
               /\ pc[p] \in Allocated =>
                    ap'[p].uid = ap[p].uid /\ ap'[p].modseq = ap[p].modseq
       /\ (pc[p] = "create" /\ pc'[p] = "updateStorageUsed")
            => \E m \in messages' \ messages :
                 m.id = ap[p].id /\ m.uid = ap[p].uid /\ m.modseq = ap[p].modseq
       /\ (pc[p] = "addEntries" /\ pc'[p] = "done")
            => /\ res'[p].uid = ap[p].uid
               /\ \E m \in messages : m.id = res'[p].id /\ m.uid = res'[p].uid]_vars

\* the second append to a mailbox has returned uid 2, the counters stand at
\* 3 and 2
SecondUidReturned ==
  \E p \in Procs :
    /\ pc[p] = "done" /\ res[p].type = "success" /\ res[p].id = ap[p].id
    /\ res[p].uid = 2 /\ ap[p].modseq = 2
    /\ mailboxes[ap[p].mailbox].uidNext = 3
    /\ mailboxes[ap[p].mailbox].modifyIndex = 2
    /\ \E m \in messages : m.id = ap[p].id /\ m.uid = 2 /\ m.modseq = 2

\* C15: an append that finds the owner over quota at the pre-check throws the
\* over-quota error there and is reported with the OVERQUOTA hint; it has
\* not looked up the mailbox, run the gate or parsed the message, and neither
\* step changes the storage or the owner, the alert timestamp included.
OverQuotaOwner == storageUsed > maxQuotaPerAlias

NothingRan(a) ==
  /\ a.path = NoMailbox /\ a.mailbox = NoMailbox
  /\ a.gate = "none" /\ ~a.encrypted
  /\ a.fingerprint = "none" /\ a.nodes = {} /\ ~a.mimeTreeData

PreCheckRejectsFirst ==
  [][\A p \in Procs :
       /\ (pc[p] = "isOverQuota" /\ pc'[p] # pc[p])
            => /\ UNCHANGED <<storage, owner, allocs, cleaned>>
               /\ IF OverQuotaOwner
                    THEN /\ pc'[p] = "catch" /\ ap'[p].err = MailboxOverQuota
                         /\ NothingRan(ap'[p])
                    ELSE pc'[p] = "findMailbox"
       /\ (pc[p] = "catch" /\ ap[p].err = MailboxOverQuota /\ pc'[p] # pc[p])
            => /\ UNCHANGED <<storage, owner, allocs, cleaned>>
               /\ NothingRan(ap[p])
               /\ pc'[p] = "done"
               /\ res'[p].type = "error"
               /\ res'[p].err = MailboxOverQuota
               /\ res'[p].err.imapResponse = "OVERQUOTA"]_vars

\* two concurrent appends took the owner over quota; a third is rejected
OverQuotaRejected ==
  \E p \in Procs :
    /\ OverQuotaOwner
    /\ pc[p] = "done" /\ ap[p].err = MailboxOverQuota /\ NothingRan(ap[p])
    /\ res[p].type = "error" /\ res[p].err.imapResponse = "OVERQUOTA"

\* C16: the gate runs exactly when the flags do not contain \Draft and the
\* owner has PGP enabled with a public key; otherwise the message is not
\* encrypted and the step leaves pgp_error_sent_at, the alert emails and the
\* rest of the owner alone.
GateIffNotDraftAndKey ==
  [][\A p \in Procs :
       (pc[p] = "encrypt" /\ pc'[p] # pc[p])
         => LET a == ap'[p] IN
            /\ (a.gate # "none") <=> (Draft \notin a.flags /\ a.hasKey)
            /\ a.encrypted => a.gate = "ok"
            /\ (Draft \in a.flags \/ ~a.hasKey)
                 => /\ ~a.encrypted
                    /\ pc'[p] = "prepareMessage"
                    /\ UNCHANGED <<pgp_error_sent_at, emails, alerts, unsets>>]_vars

\* a draft of an owner with a key, stored unencrypted, while an earlier
\* alert is still on record
DraftStoredWithoutGate ==
  \E p \in Procs :
    /\ pc[p] = "done" /\ res[p].type = "success"
    /\ Draft \in ap[p].flags /\ ap[p].hasKey /\ ap[p].gate = "none"
    /\ \E m \in messages : m.id = ap[p].id /\ Draft \in m.flags /\ ~m.encrypted
    /\ pgp_error_sent_at # NoDate /\ Len(alerts) = 1

\* C17: a live EXISTS event was emitted for an append exactly when that
\* append succeeded with a Message of its own and its session had the target
\* mailbox selected.
EventsFor(id) == {i \in DOMAIN exists : exists[i].id = id}

LiveEventIffSelectedSuccess ==
  \A p \in Procs :
    pc[p] = "done" =>
      (EventsFor(ap[p].id) # {}
         <=> (res[p].type = "success" /\ res[p].id = ap[p].id /\ ap[p].selected))

\* the half of it that does not depend on how the append ends: a session that
\* has not selected the target mailbox gets no event, a selected one gets
\* exactly one unless the broadcast itself throws
NoEventUnlessSelected ==
  \A p \in Procs :
    /\ ~ap[p].selected => EventsFor(ap[p].id) = {}
    /\ (ap[p].selected /\ ap[p].err # Thrown("broadcast"))
         => Cardinality(EventsFor(ap[p].id)) = 1
    /\ \A i \in EventsFor(ap[p].id) :
         Persisted(ap[p].id) /\ exists[i].uid = ap[p].uid
           /\ exists[i].mailbox = ap[p].mailbox

\* C18: once its Message is persisted, an append whose only failing call is
\* the storage update goes on to the live event and the journal: it never
\* enters the catch block, runs no cleanup, and ends with its Journal entry
\* written, the wake signal fired and the success response of status "new".
FiredFor(id) == \E i \in DOMAIN fired : fired[i] = id

StorageUpdateFailureNotFatal ==
  \A p \in Procs :
    Persisted(ap[p].id) =>
      /\ pc[p] \in {"updateStorageUsed", "broadcast", "addEntries", "done"}
      /\ ap[p].err = NoError
      /\ ~CleanedFor(ap[p].id)
      /\ pc[p] = "done" =>
           /\ res[p].type = "success" /\ res[p].status = "new"
           /\ res[p].id = ap[p].id
           /\ Cardinality(JournalFor(ap[p].id)) = 1
           /\ FiredFor(ap[p].id)

\* an append has returned success although its storage update threw: the
\* owner's storage-used value is stale
SucceededAfterStorageFailure ==
  \E p \in Procs :
    /\ "updateStorageUsed" \in ap[p].logged
    /\ pc[p] = "done" /\ res[p].type = "success" /\ res[p].status = "new"
    /\ Persisted(ap[p].id) /\ JournalFor(ap[p].id) # {} /\ FiredFor(ap[p].id)
    /\ storageUsed < SumSizes(messages)

\* C19: of two appends holding identifiers of the same mailbox, the one with
\* the smaller uid persists its Message first and gets its result first.
CompletionInAllocationOrder ==
  \A p, q \in Procs :
    ( /\ pc[p] \in Allocated /\ pc[q] \in Allocated \cup {"done"}
      /\ ap[p].mailbox = ap[q].mailbox
      /\ 0 < ap[p].uid /\ ap[p].uid < ap[q].uid )
      => /\ pc[q] # "done"
         /\ Persisted(ap[q].id) => Persisted(ap[p].id)

\* C20: an append reported as failed has left no Message, no Journal entry
\* and no reference to its blobs behind; an append reported as success with
\* status "new" has its Message, its blobs and its Journal entry in storage.
Holders(h) ==
  {m.id : m \in {x \in messages : h \in x.attachments}}
    \cup {ap[q].id : q \in {x \in Procs :
             /\ pc[x] \in {"findByIdAndUpdate", "getThreadId", "create", "catch"}
             /\ h \in ap[x].attachmentMap}}

AppendIsAtomic ==
  \A p \in Procs :
    pc[p] = "done" =>
      IF res[p].type # "success"
        THEN /\ ~Persisted(ap[p].id)
             /\ JournalFor(ap[p].id) = {}
             /\ \A h \in ap[p].attachmentMap :
                  attachments[h] <= Cardinality(Holders(h) \ {ap[p].id})
        ELSE res[p].status = "new" =>
             /\ Persisted(res[p].id)
             /\ JournalFor(res[p].id) # {}
             /\ \A m \in messages :
                  m.id = res[p].id => \A h \in m.attachments : attachments[h] > 0

EmailInFlight(id) == \E e \in emails : e.id = id

DispatchedByUpdater ==
  \A e \in emails :
    \E i \in DOMAIN alerts : alerts[i].id = e.id /\ alerts[i].at = e.now

OneUpdatePerRace ==
  /\ \A i, j \in DOMAIN alerts : i < j => alerts[i].at # alerts[j].at
  /\ DispatchedByUpdater

\* C22, amended: a second update succeeds at the same time only after the
\* alert email of the first failed to send, which cleared pgp_error_sent_at
\* again; every alert email was dispatched by an append whose update
\* succeeded, and at most one of them is in flight or delivered.
OneUpdatePerRaceUnlessEmailFailed ==
  /\ \A i, j \in DOMAIN alerts :
       (i < j /\ alerts[i].at = alerts[j].at)
         => ~alerts[i].sent /\ ~EmailInFlight(alerts[i].id)
  /\ DispatchedByUpdater
  /\ Cardinality({i \in DOMAIN alerts :
                    alerts[i].at = clock
                      /\ (alerts[i].sent \/ EmailInFlight(alerts[i].id))}) <= 1

\* two appends are past a permanent encryption failure of the same hour;
\* one update succeeded, and its email was delivered
RaceWonByOne ==
  \E p, q \in Procs :
    /\ p # q /\ ap[p].gate = "permanent" /\ ap[q].gate = "permanent"
    /\ pc[p] = "prepareMessage" /\ pc[q] = "prepareMessage"
    /\ Len(alerts) = 1 /\ alerts[1].id = ap[p].id /\ alerts[1].sent
    /\ emails = {} /\ pgp_error_sent_at = clock

\* C23: an encryption error that is a code bug or retryable leaves
\* pgp_error_sent_at, the alert emails and the rest of the owner as they
\* were; an update of pgp_error_sent_at or an alert email at the gate comes
\* from an error that is neither, or from a success.
NoAlertForCodeBugOrRetryable ==
  [][\A p \in Procs :
       (pc[p] = "encrypt" /\ pc'[p] # pc[p])
         => /\ ap'[p].gate \in {"codeBug", "retryable"}
                 => UNCHANGED <<pgp_error_sent_at, emails, alerts, unsets>>
            /\ (emails' # emails \/ alerts' # alerts)
                 => ap'[p].gate = "permanent"
            /\ pgp_error_sent_at' # pgp_error_sent_at
                 => ap'[p].gate \in {"permanent", "ok"}]_vars

\* the second append hit a code bug at the gate and was stored without an
\* alert, at a time when a permanent error would have sent one
NoAlertSent ==
  \E p \in Procs :
    /\ ap[p].gate = "codeBug" /\ pc[p] = "done" /\ ap[p].id = 2
    /\ res[p].type = "success"
    /\ alerts = <<>> /\ emails = {} /\ pgp_error_sent_at = NoDate
    /\ \E m \in messages : m.id = 1 /\ m.id # ap[p].id /\ ~m.encrypted

\* C24: an append that is reported as failed after it stored blobs has had
\* attachment cleanup run on all the blobs it stored, before the report.
CleanupOnEveryFailure ==
  \A p \in Procs :
    (pc[p] = "done" /\ res[p].type = "error" /\ ap[p].attachmentMap # {})
      => \E i \in DOMAIN cleaned :
           cleaned[i].id = ap[p].id /\ cleaned[i].ids = ap[p].attachmentMap

\* the same for the failures that come after storeNodeBodies has returned
CleanupAfterBlobsStored ==
  \A p \in Procs :
    (pc[p] = "done" /\ res[p].type = "error" /\ ap[p].hasNodeBodies)
      => \E i \in DOMAIN cleaned :
           cleaned[i].id = ap[p].id /\ cleaned[i].ids = ap[p].attachmentMap

\* C25: an allocation that finds the mailbox gone throws the
\* mailbox-not-found error and allocates nothing; the catch block hands the
\* stored blobs to deleteMany, which releases them; the error is reported
\* with TRYCREATE, and the append has left no Message and no Journal entry.
DeletedBeforeAllocation(a) == a.err = MailboxDoesNotExist /\ a.hasNodeBodies

MailboxDeletedBeforeAllocation ==
  [][\A p \in Procs :
       /\ (pc[p] = "findByIdAndUpdate" /\ pc'[p] # pc[p]
             /\ ~mailboxes[ap[p].mailbox].exists)
            => /\ pc'[p] = "catch" /\ DeletedBeforeAllocation(ap'[p])
               /\ UNCHANGED <<storage, allocs>>
       /\ (pc[p] = "catch" /\ DeletedBeforeAllocation(ap[p]) /\ pc'[p] # pc[p])
            => /\ pc'[p] = "report"
               /\ UNCHANGED <<mailboxes, messages, journal, allocs>>
               /\ Len(cleaned') = Len(cleaned) + 1
               /\ cleaned'[Len(cleaned')].id = ap[p].id
               /\ cleaned'[Len(cleaned')].ids = ap[p].nodes
               /\ \A h \in ap[p].nodes : attachments'[h] = attachments[h] - 1
       /\ (pc[p] = "report" /\ DeletedBeforeAllocation(ap[p]) /\ pc'[p] # pc[p])
            => /\ pc'[p] = "done"
               /\ UNCHANGED <<storage, allocs>>
               /\ res'[p].type = "error" /\ res'[p].err = MailboxDoesNotExist
               /\ res'[p].err.imapResponse = "TRYCREATE"
               /\ ~Persisted(ap[p].id) /\ JournalFor(ap[p].id) = {}
               /\ \A i \in DOMAIN allocs : allocs[i].id # ap[p].id]_vars

\* the mailbox was there at the lookup and gone at the allocation
DeletedMailboxReported ==
  \E p \in Procs :
    /\ pc[p] = "done" /\ DeletedBeforeAllocation(ap[p])
    /\ ap[p].path = "INBOX" /\ ~mailboxes["INBOX"].exists
    /\ res[p].type = "error" /\ res[p].err.imapResponse = "TRYCREATE"
    /\ CleanedFor(ap[p].id) /\ attachments["h1"] = 0
    /\ messages = {} /\ journal = <<>>

\* C26: a deleteMany that throws in the catch block is logged and leaves err
\* as it was: the caller is given the translated error of the append.
CleanupFailureOnlyLogged ==
  [][\A p \in Procs :
       /\ (pc[p] = "catch" /\ pc'[p] = "report")
            => /\ ap'[p].err = ap[p].err /\ ap[p].err # Thrown("deleteMany")
               /\ cleaned'[Len(cleaned')].failed
                    <=> "deleteMany" \in ap'[p].logged
       /\ (pc[p] = "report" /\ pc'[p] # pc[p])
            => /\ pc'[p] = "done"
               /\ res'[p].type = "error"
               /\ res'[p].err = refineAndLogError(ap[p].err)
               /\ res'[p].err # Thrown("deleteMany")]_vars

\* a failed persist followed by a failed cleanup, reported as the former
CleanupFailureReached ==
  \E p \in Procs :
    /\ pc[p] = "done" /\ "deleteMany" \in ap[p].logged
    /\ \E i \in DOMAIN cleaned : cleaned[i].id = ap[p].id /\ cleaned[i].failed
    /\ res[p].type = "error" /\ res[p].err = Thrown("create")
    /\ \E h \in ap[p].attachmentMap : attachments[h] > 0

\* C28: no append is aborted by a failing thread resolution.
ThreadFailureFailsOpen ==
  \A p \in Procs :
    /\ ap[p].err # Thrown("getThreadId")
    /\ res[p].err # Thrown("getThreadId")

\* C27: the derived fields of every stored Message agree with its flags and
\* with its mailbox: unseen, flagged, undeleted, draft and searchable say
\* whether \Seen, \Flagged, \Deleted and \Draft are among the flags, junk
\* whether the mailbox is the \Junk one, exp whether its retention is a
\* number other than 0.
DerivedFieldsMatchFlags ==
  \A m \in messages :
    LET mailbox == mailboxes[m.mailbox] IN
    /\ m.unseen = (Seen \notin m.flags)
    /\ m.flagged = (Flagged \in m.flags)
    /\ m.undeleted = (Deleted \notin m.flags)
    /\ m.draft = (Draft \in m.flags)
    /\ m.searchable = (Deleted \notin m.flags)
    /\ m.junk = (mailbox.specialUse = Junk)
    /\ m.exp = (mailbox.retention \notin {NotANumber, 0})

\* the same with respect to the flags handed to APPEND
DerivedFieldsMatchGivenFlags ==
  [][\A p \in Procs :
       (pc[p] = "create" /\ pc'[p] = "updateStorageUsed")
         => \E m \in messages' \ messages :
              LET mailbox == mailboxes[m.mailbox] IN
              /\ m.id = ap[p].id
              /\ m.unseen = (Seen \notin ap[p].flags)
              /\ m.flagged = (Flagged \in ap[p].flags)
              /\ m.undeleted = (Deleted \notin ap[p].flags)
              /\ m.draft = (Draft \in ap[p].flags)
              /\ m.searchable = (Deleted \notin ap[p].flags)
              /\ m.junk = (mailbox.specialUse = Junk)
              /\ m.exp = (mailbox.retention \notin {NotANumber, 0})]_vars

\* C29: while the size requests run, a request that fails or times out
\* changes nothing but its own state: the others stay pending, no alert
\* email is sent, the job does not enter its catch block; and once the
\* requests have started the job reaches its final step and posts 'done'.
SizeFailuresAreSoft ==
  /\ [][job.pc = "size" =>
          /\ job'.pc \in {"size", "final"}
          /\ job'.emails = job.emails /\ job'.ids = job.ids
          /\ \A id \in AliasIds :
               job.requests[id] # "pending" => job'.requests[id] = job.requests[id]
          /\ Cardinality({id \in AliasIds :
                            job'.requests[id] # job.requests[id]}) <= 1
          /\ job'.pc = "final" =>
               \A id \in AliasIds : job.requests[id] # "pending"]_vars
  /\ (job.pc = "size") ~> (job.pc = "done" /\ "error" \notin job.emails)

\* the job is done after one request timed out, one failed and one resolved
DoneAfterSoftFailures ==
  /\ job.pc = "done" /\ "error" \notin job.emails
  /\ \E a, b, c \in job.ids :
       /\ job.requests[a] = "timeout" /\ job.requests[b] = "error"
       /\ job.requests[c] = "ok"

\* C30: the total size of the owner's stored messages never exceeds the
\* maximum quota per alias, whatever the interleaving of the appends.
StoredSizeWithinQuota == SumSizes(messages) <= maxQuotaPerAlias

\* C31: an append that succeeded with a Message of its own has one Journal
\* entry, marked ignore exactly when the live EXISTS event was broadcast to
\* its session, and both exactly when the session has the target mailbox
\* selected: the live event and the entries not marked ignore tell the
\* appending connection about the message once in all.
Told(id) ==
  Cardinality(EventsFor(id))
    + Cardinality({i \in JournalFor(id) : ~journal[i].ignore})

ToldExactlyOnce ==
  \A p \in Procs :
    (pc[p] = "done" /\ res[p].type = "success" /\ res[p].id = ap[p].id) =>
      /\ Cardinality(JournalFor(ap[p].id)) = 1
      /\ \A i \in JournalFor(ap[p].id) :
           /\ journal[i].ignore <=> EventsFor(ap[p].id) # {}
           /\ journal[i].ignore <=> ap[p].selected
      /\ Told(ap[p].id) = 1

\* two appends have succeeded, one by a session with the target mailbox
\* selected (live event, entry marked ignore), one by a session without
BothWaysTold ==
  \E p, q \in Procs :
    /\ pc[p] = "done" /\ res[p].type = "success" /\ res[p].id = ap[p].id
    /\ pc[q] = "done" /\ res[q].type = "success" /\ res[q].id = ap[q].id
    /\ ap[p].selected /\ EventsFor(ap[p].id) # {}
    /\ \A i \in JournalFor(ap[p].id) : journal[i].ignore
    /\ ~ap[q].selected /\ EventsFor(ap[q].id) = {}
    /\ \E i \in JournalFor(ap[q].id) : ~journal[i].ignore

\* C32: at most one Payment with a given stripe_payment_intent_id exists,
\* however the webhook handler and the redirect handler of that payment
\* intent interleave.
PaymentsWith(id) ==
  {i \in DOMAIN stripe.Payments :
     stripe.Payments[i].stripe_payment_intent_id = id}

OnePaymentPerIntent ==
  \A id \in PaymentIntents : Cardinality(PaymentsWith(id)) <= 1

\* what the two lookups give by themselves: a handler that found the Payment
\* creates none, and a second Payment is only created by a handler whose
\* lookup ran before the other handler's create
SecondPaymentOnlyAfterStaleLookup ==
  [][\A h \in Handlers :
       (stripe.pc[h] = "create" /\ stripe'.pc[h] # "create"
          /\ Len(stripe'.Payments) > Len(stripe.Payments))
         => /\ ~stripe.payment[h]
            /\ stripe.unique = "unique" => PaymentsWith(stripe.paymentIntent[h]) = {}]_vars

\* with a unique index in the schema the collection holds one Payment per
\* payment intent, and the handler that loses ends in its error path
OnePaymentPerIntentUnderUniqueIndex ==
  stripe.unique = "unique" => OnePaymentPerIntent

====
